---- MODULE Spec2Model ----
(***************************************************************************)
(* A model of gau2grid's two collocation generators:                       *)
(*   np_generator.py  the lazily built, cached NumPy kernels               *)
(*   c_generator.py   the emitter of the blocked (tiled) C kernel          *)
(* Five specifications share the variables below:                          *)
(*   Spec        single-threaded sequences of compute_collocation calls    *)
(*   SpecRace    callers racing through compute_collocation's steps        *)
(*   SpecTerm    _build_xyz_pow applied to enumerated inputs               *)
(*   SpecGen     numpy_generator / shell_c_generator emitting their text   *)
(*   SpecKernel  one run of the kernel text shell_c_generator emits        *)
(***************************************************************************)
EXTENDS Integers, Sequences, FiniteSets, TLC

\* ---------------------------------------------------------------- bounds
MaxL == 1
MaxCalls == 3
NumCallers == 2
MaxRaceCalls == 2
MaxPref == 3
MaxRawExp == 4
MaxGenL == 2
MaxPoints == 4
MaxTile == 2
MaxPrim == 2
MaxKernL == 3

\* ------------------------------------------------------ program constants
\* def _build_xyz_pow(name, pref, l, m, n, shift=2)
shift == 2

\* ------------------------------------------------------------- variables
VARIABLES
    built_npcoll_functions, \* np_generator.py:11, the dict compute_collocation execs into
    hist,                   \* history counters: generator runs, builds, allocations, calls
    lastCall,               \* outcome of the latest completed compute_collocation call
    pc,                     \* per caller: position inside compute_collocation
    frame,                  \* per caller: the arguments and locals of the running call
    term,                   \* one application of _build_xyz_pow: arguments and results
    cg,                     \* the CodeGen a generator writes to
    gen,                    \* the running generator: arguments and position
    kern                    \* one run of the emitted C kernel: arguments, locals, buffers

cacheVars == <<built_npcoll_functions, hist, lastCall>>
raceVars == <<pc, frame>>
genVars == <<cg, gen>>
vars == <<built_npcoll_functions, hist, lastCall, pc, frame, term, cg, gen, kern>>

\* ------------------------------------------------- compute_collocation
Ls == 0..MaxL
CartOrders == {"row", "molden"}
Grads == 0..3
Callers == 1..NumCallers

\* lookup = "compute_shell_%d_%s" % (L, cart_order)
Lookup(L, cart_order) == "compute_shell_" \o ToString(L) \o "_" \o cart_order

Keys == {Lookup(L, o) : L \in Ls, o \in CartOrders}

\* if grad > 2: raise ValueError(...)
UnsupportedGradNever(grad) == FALSE
UnsupportedGrad(grad) == grad > 2

\* if lookup not in __built_npcoll_functions:
NotBuiltAlways(lookup, dict) == TRUE
NotBuilt(lookup, dict) == lookup \notin DOMAIN dict

\* exec(source, dict): runs the generated "def <lookup>(...)" with dict as its
\* globals.  The def binds <lookup> to a new function object (obj), replacing
\* whatever was bound; exec itself adds "__builtins__" when it is missing.
exec(lookup, obj, dict) ==
    [k \in DOMAIN dict \cup {"__builtins__", lookup} |->
        IF k = lookup THEN [name |-> lookup, obj |-> obj]
        ELSE IF k \in DOMAIN dict THEN dict[k]
        ELSE [name |-> "__builtins__", obj |-> 0]]

\* The arrays the generated kernel allocates on a call: output['PHI'], then
\* the gradient and the Hessian arrays by grad.
KernelLabels(grad) ==
    {"PHI"}
    \cup (IF grad > 0 THEN {"PHI_X", "PHI_Y", "PHI_Z"} ELSE {})
    \cup (IF grad > 1 THEN {"PHI_XX", "PHI_YY", "PHI_ZZ", "PHI_XY", "PHI_XZ", "PHI_YZ"}
          ELSE {})

\* The generated kernel's own check, after its allocations.
KernelRaises(grad) == grad > 2

NoCall == [outcome |-> "none", key |-> "", grad |-> 0, func |-> 0, bundle |-> {}]

\* The call of the cached kernel and what the caller sees of it.
CallKernel(lookup, grad, dict) ==
    IF KernelRaises(grad)
    THEN [outcome |-> "ValueError", key |-> lookup, grad |-> grad,
          func |-> dict[lookup].obj, bundle |-> {}]
    ELSE [outcome |-> "returned", key |-> lookup, grad |-> grad,
          func |-> dict[lookup].obj, bundle |-> KernelLabels(grad)]

Raised(lookup, grad) ==
    [outcome |-> "ValueError", key |-> lookup, grad |-> grad, func |-> 0, bundle |-> {}]

HistInit ==
    [generated |-> 0, nextObj |-> 1, allocated |-> 0, ncalls |-> 0,
     built |-> [k \in Keys |-> 0], calls |-> [k \in Keys |-> 0]]

\* One whole call, as a single-threaded caller sees it.
compute_collocation(L, cart_order, grad) ==
    LET lookup == Lookup(L, cart_order)
        build == NotBuilt(lookup, built_npcoll_functions)
        dict1 == IF build THEN exec(lookup, hist.nextObj, built_npcoll_functions)
                 ELSE built_npcoll_functions
    IN  /\ hist.ncalls < MaxCalls
        /\ IF UnsupportedGrad(grad)
           THEN /\ lastCall' = Raised(lookup, grad)
                /\ hist' = [hist EXCEPT !.ncalls = @ + 1]
                /\ UNCHANGED built_npcoll_functions
           ELSE /\ built_npcoll_functions' = dict1
                /\ lastCall' = CallKernel(lookup, grad, dict1)
                /\ hist' = [hist EXCEPT
                       !.ncalls = @ + 1,
                       !.calls[lookup] = @ + 1,
                       !.generated = IF build THEN @ + 1 ELSE @,
                       !.nextObj = IF build THEN @ + 1 ELSE @,
                       !.built[lookup] = IF build THEN @ + 1 ELSE @,
                       !.allocated = @ + Cardinality(KernelLabels(grad))]
        /\ UNCHANGED <<raceVars, term, genVars, kern>>

\* ------------------------------------- the same call, step by step
NoFrame == [L |-> 0, cart_order |-> "", grad |-> 0, lookup |-> ""]

\* Entry: the grad check and the lookup key (np_generator.py:49-52).
Enter(t, L, cart_order, grad) ==
    /\ pc[t] = "idle"
    /\ hist.ncalls < MaxRaceCalls
    /\ hist' = [hist EXCEPT !.ncalls = @ + 1]
    /\ IF UnsupportedGrad(grad)
       THEN /\ lastCall' = Raised(Lookup(L, cart_order), grad)
            /\ UNCHANGED <<pc, frame>>
       ELSE /\ pc' = [pc EXCEPT ![t] = "check"]
            /\ frame' = [frame EXCEPT ![t] = [L |-> L, cart_order |-> cart_order,
                                              grad |-> grad,
                                              lookup |-> Lookup(L, cart_order)]]
            /\ UNCHANGED lastCall
    /\ UNCHANGED <<built_npcoll_functions, term, genVars, kern>>

\* The membership test (np_generator.py:53).
CheckCache(t) ==
    /\ pc[t] = "check"
    /\ pc' = [pc EXCEPT ![t] =
                IF NotBuilt(frame[t].lookup, built_npcoll_functions)
                THEN "generate" ELSE "fetch"]
    /\ UNCHANGED <<cacheVars, frame, term, genVars, kern>>

\* numpy_generator(L, lookup, cart_order) returns the kernel's source.
Generate(t) ==
    /\ pc[t] = "generate"
    /\ pc' = [pc EXCEPT ![t] = "exec"]
    /\ hist' = [hist EXCEPT !.generated = @ + 1]
    /\ UNCHANGED <<built_npcoll_functions, lastCall, frame, term, genVars, kern>>

\* exec(source, __built_npcoll_functions) builds the kernel and binds it.
Exec(t) ==
    /\ pc[t] = "exec"
    /\ pc' = [pc EXCEPT ![t] = "fetch"]
    /\ built_npcoll_functions' = exec(frame[t].lookup, hist.nextObj, built_npcoll_functions)
    /\ hist' = [hist EXCEPT !.nextObj = @ + 1, !.built[frame[t].lookup] = @ + 1]
    /\ UNCHANGED <<lastCall, frame, term, genVars, kern>>

\* func = __built_npcoll_functions[lookup]; return func(...) (56-57).
Fetch(t) ==
    /\ pc[t] = "fetch"
    /\ pc' = [pc EXCEPT ![t] = "idle"]
    /\ frame' = [frame EXCEPT ![t] = NoFrame]
    /\ lastCall' = CallKernel(frame[t].lookup, frame[t].grad, built_npcoll_functions)
    /\ hist' = [hist EXCEPT !.calls[frame[t].lookup] = @ + 1,
                            !.allocated = @ + Cardinality(KernelLabels(frame[t].grad))]
    /\ UNCHANGED <<built_npcoll_functions, term, genVars, kern>>


\* ------------------------------------------------------- _build_xyz_pow
\* Text is kept as the sequence of its blank-separated words, so
\* "AX = 2.0 * xc_pow[0]" is <<"AX", "=", "2.0", "*", "xc_pow[0]">>.
None == <<>>

\* "%2.1f" % float(pref), for the whole numbers the callers pass
\* ("Basically always an int"): the digits, a point and one zero.
FormatPref(pref) == ToString(pref) \o ".0"

\* "xc_pow[%d]" % k
PowRef(table, k) == table \o "[" \o ToString(k) \o "]"

\* mul is " " until something follows the "=", " * " afterwards.
Sep(mul) == IF mul = " * " THEN <<"*">> ELSE <<>>

np_build_xyz_pow_index(name, pref, l, m, n) ==
    LET ls == l - shift
        ms == m - shift
        ns == n - shift
        r0 == IF pref = 1 THEN <<name, "=">> ELSE <<name, "=", FormatPref(pref)>>
        mul0 == IF pref = 1 THEN " " ELSE " * "
        r1 == IF ls > 0 THEN r0 \o Sep(mul0) \o <<PowRef("xc_pow", ls)>> ELSE r0
        mul1 == IF ls > 0 THEN " * " ELSE mul0
        r2 == IF ms > 0 THEN r1 \o Sep(mul1) \o <<PowRef("yc_pow", ms)>> ELSE r1
        mul2 == IF ms > 0 THEN " * " ELSE mul1
        r3 == IF ns > 0 THEN r2 \o Sep(mul2) \o <<PowRef("zc_pow", ns)>> ELSE r2
        mul3 == IF ns > 0 THEN " * " ELSE mul2
    IN  IF (pref <= 0) \/ (ls < 0) \/ (ns < 0) \/ (ms < 0) THEN None
        ELSE IF mul3 = " " THEN r3 \o <<"1">> ELSE r3

\* np_generator.py:330-366
np_build_xyz_pow(name, pref, l, m, n) ==
    LET ls == l - shift
        ms == m - shift
        ns == n - shift
        r0 == IF pref = 1 THEN <<name, "=">> ELSE <<name, "=", FormatPref(pref)>>
        mul0 == IF pref = 1 THEN " " ELSE " * "
        r1 == IF ls > 0 THEN r0 \o Sep(mul0) \o <<PowRef("xc_pow", ls - 1)>> ELSE r0
        mul1 == IF ls > 0 THEN " * " ELSE mul0
        r2 == IF ms > 0 THEN r1 \o Sep(mul1) \o <<PowRef("yc_pow", ms - 1)>> ELSE r1
        mul2 == IF ms > 0 THEN " * " ELSE mul1
        r3 == IF ns > 0 THEN r2 \o Sep(mul2) \o <<PowRef("zc_pow", ns - 1)>> ELSE r2
        mul3 == IF ns > 0 THEN " * " ELSE mul2
    IN  IF (pref <= 0) \/ (ls < 0) \/ (ns < 0) \/ (ms < 0) THEN None
        ELSE IF mul3 = " " THEN r3 \o <<"1">> ELSE r3

\* c_generator.py:304-340
c_build_xyz_pow(name, pref, l, m, n) ==
    LET ls == l - shift
        ms == m - shift
        ns == n - shift
        r0 == IF pref = 1 THEN <<name, "=">> ELSE <<name, "=", FormatPref(pref)>>
        mul0 == IF pref = 1 THEN " " ELSE " * "
        r1 == IF ls > 0 THEN r0 \o Sep(mul0) \o <<PowRef("xc_pow", ls - 1)>> ELSE r0
        mul1 == IF ls > 0 THEN " * " ELSE mul0
        r2 == IF ms > 0 THEN r1 \o Sep(mul1) \o <<PowRef("yc_pow", ms - 1)>> ELSE r1
        mul2 == IF ms > 0 THEN " * " ELSE mul1
        r3 == IF ns > 0 THEN r2 \o Sep(mul2) \o <<PowRef("zc_pow", ns - 1)>> ELSE r2
        mul3 == IF ns > 0 THEN " * " ELSE mul2
    IN  IF (pref <= 0) \/ (ls < 0) \/ (ns < 0) \/ (ms < 0) THEN None
        ELSE IF mul3 = " " THEN r3 \o <<"1">> ELSE r3


\* ---------------------------------------------------- reading a term back
\* What a written term denotes: coef * x^ex[1] * y^ex[2] * z^ex[3], where
\* table[k] of an axis holds the (k+1)-th power of its coordinate.
ParseMax == MaxPref + MaxRawExp + (MaxGenL * MaxGenL)

IsNumber(tok) == tok = "1" \/ \E v \in 0..ParseMax : tok = FormatPref(v)
NumberOf(tok) == IF tok = "1" THEN 1 ELSE CHOOSE v \in 0..ParseMax : tok = FormatPref(v)
IsPowRef(tok, table) == \E k \in 0..ParseMax : tok = PowRef(table, k)
PowerOf(tok, table) ==
    IF IsPowRef(tok, table) THEN 1 + (CHOOSE k \in 0..ParseMax : tok = PowRef(table, k))
    ELSE 0

\* The factors of a product "f1 * f2 * ...": the words between the stars.
RECURSIVE Factors(_)
Factors(words) ==
    IF Len(words) = 0 THEN <<>>
    ELSE IF Len(words) = 1 THEN <<words[1]>>
    ELSE IF words[2] = "*" THEN <<words[1]>> \o Factors(SubSeq(words, 3, Len(words)))
    ELSE <<"?">>

RECURSIVE CoefOf(_)
CoefOf(fs) ==
    IF fs = <<>> THEN 1
    ELSE (IF IsNumber(Head(fs)) THEN NumberOf(Head(fs)) ELSE 1) * CoefOf(Tail(fs))

RECURSIVE ExpOf(_, _)
ExpOf(fs, table) ==
    IF fs = <<>> THEN 0 ELSE PowerOf(Head(fs), table) + ExpOf(Tail(fs), table)

\* rhs = term.split(" = ")[-1]
Rhs(line) == SubSeq(line, 3, Len(line))

Monomial(fs) ==
    [coef |-> CoefOf(fs),
     ex |-> <<ExpOf(fs, "xc_pow"), ExpOf(fs, "yc_pow"), ExpOf(fs, "zc_pow")>>]

TermNames == {"A", "AXY"}
TermIdle == [phase |-> "idle", name |-> "", pref |-> 0, l |-> 0, m |-> 0, n |-> 0,
             np |-> None, c |-> None]

\* Both backends' _build_xyz_pow applied to the drawn arguments.
ApplyBuildXyzPow ==
    /\ term.phase = "input"
    /\ term' = [term EXCEPT
           !.phase = "built",
           !.np = np_build_xyz_pow(term.name, term.pref, term.l, term.m, term.n),
           !.c = c_build_xyz_pow(term.name, term.pref, term.l, term.m, term.n)]
    /\ UNCHANGED <<cacheVars, raceVars, genVars, kern>>

\* ------------------------------------------------------------ CodeGen
\* codegen.CodeGen: an indentation level and the lines written so far, each
\* kept with the level it was written at; calls counts the calls made on it.
NewCodeGen == [lines |-> <<>>, indent |-> 0, calls |-> 0]

Txt(text) == [kind |-> "text", text |-> text]
\* the line a _build_xyz_pow term makes, "AX = 2.0 * xc_pow[0]"
TermLine(words) == [kind |-> "term", words |-> words]
\* "output['<label>'][<idx>] <op> <rhs>"
OutLine(label, idx, op, rhs) ==
    [kind |-> "out", label |-> label, idx |-> idx, op |-> op, rhs |-> rhs]

Write(line) == [op |-> "write", line |-> line]
Blankline == [op |-> "blankline"]
Indent == [op |-> "indent"]
Dedent(k) == [op |-> "dedent", k |-> k]
StartCBlock(text) == [op |-> "start_c_block", line |-> Txt(text)]
CloseCBlock == [op |-> "close_c_block"]

cg_apply(g, o) ==
    LET put(line) == Append(g.lines, [ind |-> g.indent, line |-> line])
    IN  CASE o.op = "write" -> [g EXCEPT !.lines = put(o.line), !.calls = @ + 1]
          [] o.op = "blankline" -> [g EXCEPT !.lines = put(Txt("")), !.calls = @ + 1]
          [] o.op = "indent" -> [g EXCEPT !.indent = @ + 1, !.calls = @ + 1]
          [] o.op = "dedent" -> [g EXCEPT !.indent = @ - o.k, !.calls = @ + 1]
          [] o.op = "start_c_block" ->
                [g EXCEPT !.lines = put(o.line), !.indent = @ + 1, !.calls = @ + 1]
          [] o.op = "close_c_block" ->
                [g EXCEPT !.indent = @ - 1,
                          !.lines = Append(g.lines, [ind |-> g.indent - 1, line |-> Txt("}")]),
                          !.calls = @ + 1]

\* The calls of ops made on g, first to last.
RECURSIVE Emit(_, _)
Emit(g, ops) ==
    IF Len(ops) = 0 THEN g
    ELSE IF Len(ops) = 1 THEN cg_apply(g, ops[1])
    ELSE LET half == Len(ops) \div 2
             first == Emit(g, SubSeq(ops, 1, half))
         IN  IF first.calls > g.calls
             THEN Emit(first, SubSeq(ops, half + 1, Len(ops)))
             ELSE first

\* ------------------------------------------------------------- Orderer
\* order.cartesian_order_factory(L, cart_order): the components of degree L
\* as <<idx, l, m, n>>, idx counting from 0.  "row" runs l downwards and,
\* within one l, m downwards; the other convention is taken to run the same
\* list backwards.
RECURSIVE RowOrderFrom(_, _, _)
RowOrderFrom(L, i, j) ==
    IF i > L THEN <<>>
    ELSE IF j > i THEN RowOrderFrom(L, i + 1, 0)
    ELSE <<<<L - i, i - j, j>>>> \o RowOrderFrom(L, i, j + 1)

cartesian_order_factory(L, cart_order) ==
    LET row == RowOrderFrom(L, 0, 0)
        k == Len(row)
    IN  [i \in 1..k |->
            LET c == IF cart_order = "row" THEN row[i] ELSE row[k + 1 - i]
            IN  <<i - 1, c[1], c[2], c[3]>>]

\* ------------------------------------------------------ _numpy_am_build
RECURSIVE Rep(_, _)
Rep(str, k) == IF k <= 0 THEN "" ELSE str \o Rep(str, k - 1)

ComponentName(ld2, md2, nd2) ==
    LET name == Rep("X", ld2) \o Rep("Y", md2) \o Rep("Z", nd2)
    IN  IF name = "" THEN "0" ELSE name

\* if <term> is not None: emit these
IfPresent(t, ops) == IF t # None THEN ops ELSE <<>>
IfFlag(flag, ops) == IF flag THEN ops ELSE <<>>

\* The second "+= S<a> * A<a>" of a same-axis Hessian left out.
np_am_hess_same_once(label, idx, S2, S1, A1, flag, A2) ==
    <<Write(OutLine(label, idx, "=", <<S2, "*", "A">>))>>
    \o IfFlag(flag, <<Write(OutLine(label, idx, "+=", <<S1, "*", A1>>))>>)
    \o IfPresent(A2, <<Write(OutLine(label, idx, "+=", Rhs(A2) \o <<"*", "S0">>))>>)

\* XX, YY, ZZ (np_generator.py:258-287)
np_am_hess_same(label, idx, S2, S1, A1, flag, A2) ==
    <<Write(OutLine(label, idx, "=", <<S2, "*", "A">>))>>
    \o IfFlag(flag, <<Write(OutLine(label, idx, "+=", <<S1, "*", A1>>)),
                      Write(OutLine(label, idx, "+=", <<S1, "*", A1>>))>>)
    \o IfPresent(A2, <<Write(OutLine(label, idx, "+=", Rhs(A2) \o <<"*", "S0">>))>>)

\* XY, XZ, YZ (np_generator.py:289-323); a is the first axis, b the second
np_am_hess_mixed(label, idx, Sab, Sa, Ab, b_grad, Sb, Aa, a_grad, Aab) ==
    <<Write(OutLine(label, idx, "=", <<Sab, "*", "A">>))>>
    \o IfFlag(b_grad, <<Write(OutLine(label, idx, "+=", <<Sa, "*", Ab>>))>>)
    \o IfFlag(a_grad, <<Write(OutLine(label, idx, "+=", <<Sb, "*", Aa>>))>>)
    \o IfPresent(Aab, <<Write(OutLine(label, idx, "+=", Rhs(Aab) \o <<"*", "S0">>))>>)

\* "output['PHI_<a>'][idx] = S<a> * A" three times, then per axis the
\* angular term when present (np_generator.py:226-247)
np_am_grad_axis(label, idx, AT, name) ==
    IfPresent(AT, <<Write(TermLine(AT)),
                    Write(OutLine(label, idx, "+=", <<"S0", "*", name>>))>>)

\* One pass of the loop body of _numpy_am_build, for the component
\* <<idx, l, m, n>> the Orderer yields: the emitter calls it makes.
numpy_am_component(L, comp) ==
    LET idx == comp[1]
        l == comp[2] + 2
        m == comp[3] + 2
        n == comp[4] + 2
        ld1 == l - 1
        ld2 == l - 2
        md1 == m - 1
        md2 == m - 2
        nd1 == n - 1
        nd2 == n - 2
        name == ComponentName(ld2, md2, nd2)
        A == np_build_xyz_pow("A", 1, l, m, n)
        AX == np_build_xyz_pow("AX", ld2, ld1, m, n)
        AY == np_build_xyz_pow("AY", md2, l, md1, n)
        AZ == np_build_xyz_pow("AZ", nd2, l, m, nd1)
        x_grad == AX # None
        y_grad == AY # None
        z_grad == AZ # None
        AXX == np_build_xyz_pow("AXX", ld2 * (ld2 - 1), ld2, m, n)
        AYY == np_build_xyz_pow("AYY", md2 * (md2 - 1), l, md2, n)
        AZZ == np_build_xyz_pow("AZZ", nd2 * (nd2 - 1), l, m, nd2)
        AXY == np_build_xyz_pow("AXY", ld2 * md2, ld1, md1, n)
        AXZ == np_build_xyz_pow("AXZ", ld2 * nd2, ld1, m, nd1)
        AYZ == np_build_xyz_pow("AYZ", md2 * nd2, l, md1, nd1)
        am == "AM=" \o ToString(L) \o " Component=" \o name
    IN  <<Write(Txt("# Density " \o am)),
          Write(TermLine(A)),
          Write(OutLine("PHI", idx, "=", <<"S0", "*", "A">>)),
          Write(Txt("# Gradient " \o am)),
          Write(Txt("if grad > 0:")),
          Indent,
          Write(OutLine("PHI_X", idx, "=", <<"SX", "*", "A">>)),
          Write(OutLine("PHI_Y", idx, "=", <<"SY", "*", "A">>)),
          Write(OutLine("PHI_Z", idx, "=", <<"SZ", "*", "A">>))>>
        \o np_am_grad_axis("PHI_X", idx, AX, "AX")
        \o np_am_grad_axis("PHI_Y", idx, AY, "AY")
        \o np_am_grad_axis("PHI_Z", idx, AZ, "AZ")
        \o <<Dedent(1),
             Write(Txt("# Hessian " \o am)),
             Write(Txt("if grad > 1:")),
             Indent>>
        \o np_am_hess_same("PHI_XX", idx, "SXX", "SX", "AX", x_grad, AXX)
        \o np_am_hess_same("PHI_YY", idx, "SYY", "SY", "AY", y_grad, AYY)
        \o np_am_hess_same("PHI_ZZ", idx, "SZZ", "SZ", "AZ", z_grad, AZZ)
        \o np_am_hess_mixed("PHI_XY", idx, "SXY", "SX", "AY", y_grad, "SY", "AX", x_grad, AXY)
        \o np_am_hess_mixed("PHI_XZ", idx, "SXZ", "SX", "AZ", z_grad, "SZ", "AX", x_grad, AXZ)
        \o np_am_hess_mixed("PHI_YZ", idx, "SYZ", "SY", "AZ", z_grad, "SZ", "AY", y_grad, AYZ)
        \o <<Dedent(1), Write(Txt(" "))>>

\* ------------------------------------------------------ numpy_generator
ncart(L) == ((L + 1) * (L + 2)) \div 2
nspherical(L) == L * 2 + 1

\* np_generator.py:66-153: the kernel's def line and its fixed opening.
numpy_generator_head(function_name) ==
    <<Write(Txt("def " \o function_name \o "(xyz, L, coeffs, exponents, center, grad=2, spherical=True):")),
      Indent,
      Blankline,
      Write(Txt("# Make sure NumPy is in locals")),
      Write(Txt("import numpy as np")),
      Blankline,
      Write(Txt("# Unpack shell data")),
      Write(Txt("nprim = len(coeffs)")),
      Write(Txt("npoints = xyz.shape[0]")),
      Blankline,
      Write(Txt("# First compute the diff distance in each cartesian")),
      Write(Txt("xc = xyz[:, 0] - center[0]")),
      Write(Txt("yc = xyz[:, 1] - center[1]")),
      Write(Txt("zc = xyz[:, 2] - center[2]")),
      Write(Txt("R2 = xc * xc + yc * yc + zc * zc")),
      Blankline,
      Write(Txt("# Build up the derivates in each direction")),
      Write(Txt("V1 = np.zeros((npoints))")),
      Write(Txt("V2 = np.zeros((npoints))")),
      Write(Txt("V3 = np.zeros((npoints))")),
      Write(Txt("for K in range(nprim):")),
      Write(Txt("    T1 = coeffs[K] * np.exp(-exponents[K] * R2)")),
      Write(Txt("    V1 += T1")),
      Write(Txt("    if grad > 0:")),
      Write(Txt("       T2 = -2.0 * exponents[K] * T1")),
      Write(Txt("       V2 += T2")),
      Write(Txt("    if grad > 1:")),
      Write(Txt("       T3 = -2.0 * exponents[K] * T2")),
      Write(Txt("       V3 += T3")),
      Blankline,
      Write(Txt("S0 = V1.copy()")),
      Write(Txt("if grad > 0:")),
      Write(Txt("   SX = V2 * xc")),
      Write(Txt("   SY = V2 * yc")),
      Write(Txt("   SZ = V2 * zc")),
      Write(Txt("if grad > 1:")),
      Write(Txt("   SXY = V3 * xc * yc")),
      Write(Txt("   SXZ = V3 * xc * zc")),
      Write(Txt("   SYZ = V3 * yc * zc")),
      Write(Txt("   SXX = V3 * xc * xc + V2")),
      Write(Txt("   SYY = V3 * yc * yc + V2")),
      Write(Txt("   SZZ = V3 * zc * zc + V2")),
      Blankline,
      Write(Txt("# Power matrix for higher angular momenta")),
      Write(Txt("xc_pow = np.zeros((L + 1, npoints))")),
      Write(Txt("yc_pow = np.zeros((L + 1, npoints))")),
      Write(Txt("zc_pow = np.zeros((L + 1, npoints))")),
      Blankline,
      Write(Txt("xc_pow[0] = xc")),
      Write(Txt("yc_pow[0] = yc")),
      Write(Txt("zc_pow[0] = zc")),
      Write(Txt("for LL in range(1, L):")),
      Write(Txt("    xc_pow[LL] = xc_pow[LL - 1] * xc")),
      Write(Txt("    yc_pow[LL] = yc_pow[LL - 1] * yc")),
      Write(Txt("    zc_pow[LL] = zc_pow[LL - 1] * zc")),
      Blankline,
      Write(Txt("# Allocate data")),
      Write(Txt("ncart = int((L + 1) * (L + 2) / 2)")),
      Blankline,
      Write(Txt("output = {}")),
      Write(Txt("output['PHI'] = np.zeros((ncart, npoints))")),
      Write(Txt("if grad > 0:")),
      Write(Txt("    output['PHI_X'] = np.zeros((ncart, npoints))")),
      Write(Txt("    output['PHI_Y'] = np.zeros((ncart, npoints))")),
      Write(Txt("    output['PHI_Z'] = np.zeros((ncart, npoints))")),
      Write(Txt("if grad > 1:")),
      Write(Txt("    output['PHI_XX'] = np.zeros((ncart, npoints))")),
      Write(Txt("    output['PHI_YY'] = np.zeros((ncart, npoints))")),
      Write(Txt("    output['PHI_ZZ'] = np.zeros((ncart, npoints))")),
      Write(Txt("    output['PHI_XY'] = np.zeros((ncart, npoints))")),
      Write(Txt("    output['PHI_XZ'] = np.zeros((ncart, npoints))")),
      Write(Txt("    output['PHI_YZ'] = np.zeros((ncart, npoints))")),
      Write(Txt("if grad > 2:")),
      Write(Txt("    raise ValueError('Only grid derivatives through Hessians (grad = 2) has been implemented')")),
      Blankline>>

\* np_generator.py:158-159 and 161 around _numpy_am_build(cg, l, cart_order)
numpy_am_open(l) == <<Write(Txt("if L == " \o ToString(l) \o ":")), Indent>>
numpy_am_close == <<Dedent(1)>>

\* RSH.transformation_generator(cg, l, cart_order, function_name): the text
\* of the transform of degree l, kept as one line.
RshLine(l, cart_order) == [kind |-> "rsh", l |-> l, cart_order |-> cart_order]

RECURSIVE numpy_rsh_defs(_, _, _)
numpy_rsh_defs(l, L, cart_order) ==
    IF l > L THEN <<>>
    ELSE <<Write(RshLine(l, cart_order)), Blankline>> \o numpy_rsh_defs(l + 1, L, cart_order)

RECURSIVE numpy_rsh_calls(_, _)
numpy_rsh_calls(l, L) ==
    IF l > L THEN <<>>
    ELSE <<Write(Txt("if L == " \o ToString(l) \o ":")),
           Indent,
           Write(Txt("for k, v in output.items():")),
           Indent,
           Write(Txt("output[k] = spherical_trans_" \o ToString(l) \o "(output[k])")),
           Dedent(2),
           Write(Txt(""))>>
         \o numpy_rsh_calls(l + 1, L)

\* np_generator.py:163-184
numpy_generator_tail(L, cart_order) ==
    <<Write(Txt("# If Cartesian were done, return")),
      Write(Txt("if spherical is False:")),
      Write(Txt("    return output")),
      Blankline>>
    \o numpy_rsh_defs(0, L, cart_order)
    \o numpy_rsh_calls(0, L)
    \o <<Write(Txt("return output"))>>

GenIdle ==
    [backend |-> "none", phase |-> "idle", L |-> 0, cart_order |-> "", grad |-> 0,
     inner_block |-> 0, function_name |-> "", l |-> 0, pos |-> 0,
     lastComp |-> <<>>, lastLines |-> <<>>, outcome |-> "none", func_sig |-> ""]

\* cg = codegen.CodeGen() and everything up to the angular momentum loops
numpy_generator_begin ==
    /\ gen.backend = "np"
    /\ gen.phase = "start"
    /\ cg' = Emit(NewCodeGen, numpy_generator_head(gen.function_name))
    /\ gen' = [gen EXCEPT !.phase = "am_open", !.l = 0]
    /\ UNCHANGED <<cacheVars, raceVars, term, kern>>

\* for l in range(L + 1): cg.write("if L == %d:" % l); cg.indent()
numpy_generator_am_open ==
    /\ gen.backend = "np"
    /\ gen.phase = "am_open"
    /\ gen.l <= gen.L
    /\ cg' = Emit(cg, numpy_am_open(gen.l))
    /\ gen' = [gen EXCEPT !.phase = "am", !.pos = 1]
    /\ UNCHANGED <<cacheVars, raceVars, term, kern>>

\* one component of _numpy_am_build(cg, l, cart_order)
numpy_am_build ==
    /\ gen.backend = "np"
    /\ gen.phase = "am"
    /\ gen.pos <= ncart(gen.l)
    /\ LET comp == cartesian_order_factory(gen.l, gen.cart_order)[gen.pos]
           after == Emit(cg, numpy_am_component(gen.l, comp))
       IN  /\ cg' = after
           /\ gen' = [gen EXCEPT
                  !.pos = @ + 1,
                  !.lastComp = comp,
                  !.lastLines = SubSeq(after.lines, Len(cg.lines) + 1, Len(after.lines))]
    /\ UNCHANGED <<cacheVars, raceVars, term, kern>>

\* _numpy_am_build returns; cg.dedent(); next l
numpy_generator_am_close ==
    /\ gen.backend = "np"
    /\ gen.phase = "am"
    /\ gen.pos > ncart(gen.l)
    /\ cg' = Emit(cg, numpy_am_close)
    /\ gen' = [gen EXCEPT !.phase = "am_open", !.l = @ + 1]
    /\ UNCHANGED <<cacheVars, raceVars, term, kern>>

\* the Cartesian return, the spherical transforms, return cg.repr()
numpy_generator_end ==
    /\ gen.backend = "np"
    /\ gen.phase = "am_open"
    /\ gen.l > gen.L
    /\ cg' = Emit(cg, numpy_generator_tail(gen.L, gen.cart_order))
    /\ gen' = [gen EXCEPT !.phase = "done", !.outcome = "returned"]
    /\ UNCHANGED <<cacheVars, raceVars, term, kern>>

\* ---------------------------------------------------- shell_c_generator
\* if function_name == "": function_name = "coll_%d_%d" % (L, grad)
c_function_name(function_name, L, grad) ==
    IF function_name = "" THEN "coll_" \o ToString(L) \o "_" \o ToString(grad)
    ELSE function_name

\* if grad == 0: func_sig = "..." else: raise KeyError(...)
c_grad_supported_any(grad) == TRUE
c_grad_supported(grad) == grad = 0

c_func_sig(function_name) ==
    "void " \o function_name
    \o "(size_t npoints, double* x, double* y, double* z, int nprim, double* coeffs, double* exponents, double* center, bool spherical, double* ret)"

S_tmps == <<"xc", "yz", "zc", "R2", "S0">>
L_tmps == <<"xc_pow", "yz_pow", "zc_pow">>
inner_tmps == <<"phi_tmp">>

\* cg.write("double*  %s = new double[%d]" % (tname, size)) for each name
RECURSIVE c_allocs(_, _)
c_allocs(names, size) ==
    IF names = <<>> THEN <<>>
    ELSE <<Write(Txt("double*  " \o Head(names) \o " = new double[" \o ToString(size) \o "]"))>>
         \o c_allocs(Tail(names), size)

\* cg.write("delete[] %s" % tname) for each name
RECURSIVE c_frees(_)
c_frees(names) ==
    IF names = <<>> THEN <<>>
    ELSE <<Write(Txt("delete[] " \o Head(names)))>> \o c_frees(Tail(names))

\* for l in range(1, L): three writes of the same line (c_generator.py:127-130)
RECURSIVE c_power_lines(_, _, _)
c_power_lines(l, L, inner_block) ==
    IF l >= L THEN <<>>
    ELSE LET line == Txt("xc_pow[" \o ToString(inner_block * l) \o " + i] = xc["
                         \o ToString(inner_block * (l - 1)) \o " + i]")
         IN  <<Write(line), Write(line), Write(line)>> \o c_power_lines(l + 1, L, inner_block)

\* c_generator.py:58-134: from the signature to the call of _c_am_build
shell_c_generator_head(func_sig, L, inner_block) ==
    <<StartCBlock(func_sig),
      Blankline,
      Write(Txt("// Sizing")),
      Write(Txt("size_t nblocks = npoints / " \o ToString(inner_block))),
      Write(Txt("nblocks += (nblocks % " \o ToString(inner_block) \o ") ? 0 : 1")),
      Write(Txt("size_t ncart = " \o ToString(ncart(L)))),
      Write(Txt("size_t nspherical = " \o ToString(nspherical(L)))),
      Write(Txt("size_t nout = spherical ? nspherical : ncart")),
      Blankline,
      Write(Txt("// Allocate temporaries"))>>
    \o c_allocs(S_tmps, inner_block)
    \o c_allocs(L_tmps, inner_block * L)
    \o c_allocs(inner_tmps, inner_block * ncart(L))
    \o <<Blankline,
         Write(Txt("// Start outer block loop")),
         StartCBlock("for (size_t block = 0; block < nblocks; block++)"),
         Blankline,
         Blankline,
         Write(Txt("// Copy data into inner temps")),
         Write(Txt("size_t start = block * " \o ToString(inner_block))),
         Write(Txt("size_t remain = ((start + " \o ToString(inner_block)
                   \o ") > npoints) ? (npoints - start) : " \o ToString(inner_block))),
         StartCBlock("for (size_t i = 0; i < remain; i++)"),
         Write(Txt("xc[i] = x[start + i] - center[0]")),
         Write(Txt("yc[i] = y[start + i] - center[1]")),
         Write(Txt("zc[i] = z[start + i] - center[2]")),
         CloseCBlock,
         Blankline,
         Write(Txt("// Start inner block loop")),
         StartCBlock("for (size_t i = 0; i < " \o ToString(inner_block) \o "; i++)"),
         Blankline,
         Write(Txt("// Position temps")),
         Write(Txt("R2[i] = xc[i] * xc[i] + yc[i] * yc[i] + zc[i] * zc[i]")),
         Blankline,
         Blankline,
         Write(Txt("// Deriv tmps")),
         StartCBlock("for (size_t n = 0; n < nprim; n++)"),
         Write(Txt("double T1 = coeffs[n] * exp(-1.0 * exponents[n] * R2[i])")),
         Write(Txt("S0[i] += T1")),
         CloseCBlock,
         Blankline,
         Blankline,
         Write(Txt("// Power tmps")),
         Write(Txt("xc_pow[i] = xc[i]")),
         Write(Txt("yc_pow[i] = yc[i]")),
         Write(Txt("zc_pow[i] = zc[i]"))>>
    \o c_power_lines(1, L, inner_block)
    \o <<Blankline,
         Write(Txt("// AM loops")),
         Blankline>>

\* "phi_tmp[%d + i] = S0 * A" % (idx * shift)
PhiTmpLine(off, rhs) == [kind |-> "phi_tmp", off |-> off, rhs |-> rhs]

\* One pass of the loop body of _c_am_build with grad == 0: the density
\* lines, then "if grad == 0: continue" (c_generator.py:173-199).
c_am_component(L, comp, inner_block) ==
    LET idx == comp[1]
        l == comp[2] + 2
        m == comp[3] + 2
        n == comp[4] + 2
        name == ComponentName(l - 2, m - 2, n - 2)
    IN  <<Write(Txt("// Density AM=" \o ToString(L) \o " Component=" \o name)),
          Write(TermLine(c_build_xyz_pow("A", 1, l, m, n))),
          Write(PhiTmpLine(idx * inner_block, <<"S0", "*", "A">>))>>

\* c_generator.py:137-160: after _c_am_build
shell_c_generator_tail(inner_block) ==
    <<Blankline,
      CloseCBlock,
      Blankline,
      Write(Txt("// Copy data back into outer temps")),
      StartCBlock("for (size_t n = 0; n < nout; n++)"),
      StartCBlock("for (size_t i = 0; i < remain; i++)"),
      Write(Txt("ret[start * nout + i] = phi_out[" \o ToString(inner_block) \o " * n + i]")),
      CloseCBlock,
      CloseCBlock,
      Blankline,
      CloseCBlock,
      Write(Txt("// Free temporaries"))>>
    \o c_frees(S_tmps \o L_tmps \o inner_tmps)
    \o <<Blankline, CloseCBlock>>

\* shell_c_generator up to the call of _c_am_build, or its KeyError
shell_c_generator_begin ==
    /\ gen.backend = "c"
    /\ gen.phase = "start"
    /\ LET function_name == c_function_name(gen.function_name, gen.L, gen.grad)
           func_sig == c_func_sig(function_name)
       IN  IF c_grad_supported(gen.grad)
           THEN /\ cg' = Emit(cg, shell_c_generator_head(func_sig, gen.L, gen.inner_block))
                /\ gen' = [gen EXCEPT !.phase = "am", !.pos = 1, !.l = gen.L,
                                      !.func_sig = func_sig]
           ELSE /\ gen' = [gen EXCEPT !.phase = "done", !.outcome = "KeyError"]
                /\ UNCHANGED cg
    /\ UNCHANGED <<cacheVars, raceVars, term, kern>>

\* one component of _c_am_build(cg, L, cart_order, grad, inner_block)
c_am_build ==
    /\ gen.backend = "c"
    /\ gen.phase = "am"
    /\ gen.pos <= ncart(gen.L)
    /\ LET comp == cartesian_order_factory(gen.L, gen.cart_order)[gen.pos]
           after == Emit(cg, c_am_component(gen.L, comp, gen.inner_block))
       IN  /\ cg' = after
           /\ gen' = [gen EXCEPT
                  !.pos = @ + 1,
                  !.lastComp = comp,
                  !.lastLines = SubSeq(after.lines, Len(cg.lines) + 1, Len(after.lines))]
    /\ UNCHANGED <<cacheVars, raceVars, term, kern>>

\* the end of the inner loop, the copy back, the frees; return func_sig
shell_c_generator_end ==
    /\ gen.backend = "c"
    /\ gen.phase = "am"
    /\ gen.pos > ncart(gen.L)
    /\ cg' = Emit(cg, shell_c_generator_tail(gen.inner_block))
    /\ gen' = [gen EXCEPT !.phase = "done", !.outcome = "returned"]
    /\ UNCHANGED <<cacheVars, raceVars, term, kern>>

\* ------------------------------------------- the kernel shell_c_generator emits
\* One run of the function the generator writes for (L, inner_block), called
\* with npoints points, nprim primitives and the spherical flag.  Buffer
\* cells hold what was stored in them, not numbers:
\*   xc[i]       the global index of the point whose recentred coordinates
\*               were copied to position i, Uninit before any copy
\*   S0[i]       whether the cell still carries what "new double[]" left in
\*               it, and the (point, primitive) terms added to it so far
\*   phi_tmp     per (row, i): the row and the point the value was made from
\*   ret[slot]   the (row, point) values written to the slot, in order
\*   pow[a][l][i] entry l of the power table of axis a (1 = x, 2 = y, 3 = z) at
\*               position i: the power of the coordinate it holds and the
\*               point the coordinate belongs to; power 0 with junk says the
\*               cell holds whatever the memory held
\*   heap        the "new double[...]" and "delete[]" statements run so far,
\*               each with the name it is written with and where it stands
\*               relative to the outer loop
\*   touched     the names of the temporaries the statements of the tile
\*               body have read or written, as the generator writes them
\* The generator writes the names yz, yz_pow and phi_out where the loops use
\* yc, yc_pow and phi_tmp; the cells of the run follow the buffer the loops
\* use, and heap and touched keep the names as written.
Uninit == -1

KernIdle == [phase |-> "idle"]

\* a power-table cell nothing has been stored in: zero, or what the memory held
k_unwritten(junk) == [junk |-> junk, power |-> 0, point |-> Uninit]

\* a cell holding the recentred coordinate of a point, to the first power
k_coordinate(point) == [junk |-> FALSE, power |-> 1, point |-> point]

KernStart(L, inner_block, npoints, nprim, spherical) ==
    [phase |-> "sizing", L |-> L, inner_block |-> inner_block, npoints |-> npoints,
     nprim |-> nprim, spherical |-> spherical,
     nblocks |-> 0, nout |-> 0, block |-> 0, start |-> 0, remain |-> 0,
     xc |-> <<>>, S0 |-> <<>>, phi_tmp |-> <<>>, ret |-> <<>>, pow |-> <<>>,
     heap |-> <<>>, touched |-> {},
     tiles |-> <<>>, copied |-> {}, computed |-> {}, scattered |-> {}]

\* size_t nblocks = npoints / <inner_block>
\* nblocks += (nblocks % <inner_block>) ? 0 : 1
k_nblocks(npoints, inner_block) ==
    LET nblocks == npoints \div inner_block
    IN  nblocks + (IF (nblocks % inner_block) # 0 THEN 0 ELSE 1)

\* size_t nout = spherical ? nspherical : ncart
k_nout(L, spherical) == IF spherical THEN nspherical(L) ELSE ncart(L)

\* size_t remain = ((start + <inner_block>) > npoints) ? (npoints - start) : <inner_block>
k_remain(start, npoints, inner_block) ==
    IF (start + inner_block) > npoints THEN npoints - start ELSE inner_block

\* for (size_t i = 0; i < <inner_block>; i++): the positions the inner loop visits
k_inner_range(inner_block, remain) == 0..(inner_block - 1)

\* ret[start * nout + i] = phi_out[<inner_block> * n + i]
k_ret_index(start, nout, n, i) == start * nout + i

\* the statements "double*  <name> = new double[...]" or "delete[] <name>",
\* one per name, in the order of the list
k_heap_events(op, names, where) ==
    [j \in 1..Len(names) |-> [op |-> op, name |-> names[j], where |-> where]]

\* the temporaries named in the copy loop: xc[i], yc[i], zc[i]
k_copy_in_names == {"xc", "yc", "zc"}

\* the temporaries named in the inner loop: R2[i] from xc, yc, zc; S0[i];
\* the three power tables; phi_tmp[...] = S0 * A in the component lines
k_compute_names == {"R2", "xc", "yc", "zc", "S0", "xc_pow", "yc_pow", "zc_pow", "phi_tmp"}

\* the temporary named in the copy back: phi_out[...]
k_copy_back_names == {"phi_out"}

\* "// Sizing"
k_sizing ==
    /\ kern.phase = "sizing"
    /\ kern' = [kern EXCEPT
           !.phase = "allocate",
           !.nblocks = k_nblocks(kern.npoints, kern.inner_block),
           !.nout = k_nout(kern.L, kern.spherical)]
    /\ UNCHANGED <<cacheVars, raceVars, term, genVars>>

\* "// Allocate temporaries": new double[...] leaves the cells as they are,
\* so each S0 cell starts at zero or at whatever the memory held.
k_allocate ==
    /\ kern.phase = "allocate"
    /\ \E junk \in [0..(kern.inner_block - 1) -> BOOLEAN], powjunk \in BOOLEAN :
          kern' = [kern EXCEPT
              !.phase = "tile",
              !.block = 0,
              !.heap = @ \o k_heap_events("new", S_tmps \o L_tmps \o inner_tmps, "before"),
              !.pow = [a \in DOMAIN L_tmps |-> [l \in 0..(kern.L - 1) |->
                          [i \in 0..(kern.inner_block - 1) |-> k_unwritten(powjunk)]]],
              !.xc = [i \in 0..(kern.inner_block - 1) |-> Uninit],
              !.S0 = [i \in 0..(kern.inner_block - 1) |-> [junk |-> junk[i], terms |-> <<>>]],
              !.phi_tmp = [r \in 0..(ncart(kern.L) - 1) |->
                              [i \in 0..(kern.inner_block - 1) |->
                                  [row |-> r, point |-> Uninit]]],
              !.ret = [slot \in 0..(kern.nout * kern.npoints - 1) |-> <<>>]]
    /\ UNCHANGED <<cacheVars, raceVars, term, genVars>>

\* for (size_t block = 0; block < nblocks; block++): start and remain
k_tile_begin ==
    /\ kern.phase = "tile"
    /\ kern.block < kern.nblocks
    /\ LET start == kern.block * kern.inner_block
           remain == k_remain(start, kern.npoints, kern.inner_block)
       IN  kern' = [kern EXCEPT
               !.phase = "copy", !.start = start, !.remain = remain,
               !.tiles = Append(@, [start |-> start, remain |-> remain]),
               !.copied = {}, !.computed = {}, !.scattered = {}]
    /\ UNCHANGED <<cacheVars, raceVars, term, genVars>>

\* "// Copy data into inner temps": for (size_t i = 0; i < remain; i++)
k_copy_in ==
    /\ kern.phase = "copy"
    /\ kern' = [kern EXCEPT
           !.phase = "compute",
           !.copied = 0..(kern.remain - 1),
           !.touched = IF kern.remain > 0 THEN @ \cup k_copy_in_names ELSE @,
           !.xc = [i \in DOMAIN kern.xc |->
                      IF i < kern.remain THEN kern.start + i ELSE kern.xc[i]]]
    /\ UNCHANGED <<cacheVars, raceVars, term, genVars>>

\* the nprim terms "S0[i] += coeffs[n] * exp(-1.0 * exponents[n] * R2[i])"
k_radial_terms(point, nprim) == [n \in 1..nprim |-> <<point, n - 1>>]

\* the value read by "xc[<idx> + i]": the coordinate at that position, or,
\* past the end of the <inner_block> cells of xc, whatever lies behind it
k_read_xc(k, idx, stray) ==
    IF idx \in DOMAIN k.xc THEN k_coordinate(k.xc[idx]) ELSE k_unwritten(stray)

\* "xc_pow[i] = xc[i]", "yc_pow[i] = yc[i]", "zc_pow[i] = zc[i]": entry 0 of
\* each table.  With L = 0 the tables have no cell and the writes fall
\* outside them; the run keeps no trace of such a write.
k_power_first(pow, k, range) ==
    [a \in DOMAIN pow |-> [l \in DOMAIN pow[a] |-> [i \in DOMAIN pow[a][l] |->
        IF l = 0 /\ i \in range THEN k_coordinate(k.xc[i]) ELSE pow[a][l][i]]]]

\* one "xc_pow[<inner_block * l> + i] = xc[<inner_block * (l - 1)> + i]"
k_power_write(pow, k, l, range, stray) ==
    [a \in DOMAIN pow |-> [ll \in DOMAIN pow[a] |-> [i \in DOMAIN pow[a][ll] |->
        IF a = 1 /\ ll = l /\ i \in range
        THEN k_read_xc(k, k.inner_block * (l - 1) + i, stray)
        ELSE pow[a][ll][i]]]]

\* for l in range(1, L): the same line three times
RECURSIVE k_power_levels(_, _, _, _, _)
k_power_levels(pow, k, l, range, stray) ==
    IF l >= k.L THEN pow
    ELSE LET w1 == k_power_write(pow, k, l, range, stray)
             w2 == k_power_write(w1, k, l, range, stray)
             w3 == k_power_write(w2, k, l, range, stray)
         IN  k_power_levels(w3, k, l + 1, range, stray)

\* "// Power tmps"
k_power_tables(k, range, stray) ==
    k_power_levels(k_power_first(k.pow, k, range), k, 1, range, stray)

\* "// Start inner block loop": R2, the radial sum, the power tables and the
\* component values
k_compute ==
    /\ kern.phase = "compute"
    /\ \E stray \in IF kern.L > 2 THEN BOOLEAN ELSE {FALSE} :
        LET range == k_inner_range(kern.inner_block, kern.remain)
            S0 == [i \in DOMAIN kern.S0 |->
                      IF i \in range
                      THEN [kern.S0[i] EXCEPT
                               !.terms = @ \o k_radial_terms(kern.xc[i], kern.nprim)]
                      ELSE kern.S0[i]]
        IN  kern' = [kern EXCEPT
                !.phase = "scatter",
                !.computed = range,
                !.touched = IF range # {} THEN @ \cup k_compute_names ELSE @,
                !.S0 = S0,
                !.pow = k_power_tables(kern, range, stray),
                !.phi_tmp = [r \in DOMAIN kern.phi_tmp |->
                                [i \in DOMAIN kern.phi_tmp[r] |->
                                    IF i \in range
                                    THEN [row |-> r, point |-> kern.xc[i]]
                                    ELSE kern.phi_tmp[r][i]]]]
    /\ UNCHANGED <<cacheVars, raceVars, term, genVars>>

\* the writes of the copy back, row by row and point by point
RECURSIVE k_scatter(_, _, _)
k_scatter(ret, k, pairs) ==
    IF pairs = <<>> THEN ret
    ELSE LET n == Head(pairs)[1]
             i == Head(pairs)[2]
             slot == k_ret_index(k.start, k.nout, n, i)
             next == IF slot \in DOMAIN ret
                     THEN [ret EXCEPT ![slot] = Append(@, k.phi_tmp[n][i])]
                     ELSE ret
         IN  k_scatter(next, k, Tail(pairs))

\* for n < nout, for i < remain, in the order the loops run
k_scatter_pairs(nout, remain) ==
    [j \in 1..(nout * remain) |-> <<(j - 1) \div remain, (j - 1) % remain>>]

\* "// Copy data back into outer temps", then the next block
k_copy_back ==
    /\ kern.phase = "scatter"
    /\ kern' = [kern EXCEPT
           !.phase = "tile",
           !.block = @ + 1,
           !.scattered = 0..(kern.remain - 1),
           !.touched = IF kern.nout * kern.remain > 0 THEN @ \cup k_copy_back_names ELSE @,
           !.ret = k_scatter(kern.ret, kern, k_scatter_pairs(kern.nout, kern.remain))]
    /\ UNCHANGED <<cacheVars, raceVars, term, genVars>>

\* the outer loop ends; "// Free temporaries"
k_free ==
    /\ kern.phase = "tile"
    /\ kern.block >= kern.nblocks
    /\ kern' = [kern EXCEPT
           !.phase = "done",
           !.heap = @ \o k_heap_events("delete", S_tmps \o L_tmps \o inner_tmps, "after")]
    /\ UNCHANGED <<cacheVars, raceVars, term, genVars>>

\* ---------------------------------------------------------- specifications
CacheInit ==
    /\ built_npcoll_functions = <<>>
    /\ hist = HistInit
    /\ lastCall = NoCall
    /\ pc = [t \in Callers |-> "idle"]
    /\ frame = [t \in Callers |-> NoFrame]

Init ==
    /\ CacheInit
    /\ term = TermIdle
    /\ cg = NewCodeGen
    /\ gen = GenIdle
    /\ kern = KernIdle

InitTerm ==
    /\ CacheInit
    /\ \E name \in TermNames, pref \in -1..MaxPref, l \in 1..MaxRawExp,
          m \in 1..MaxRawExp, n \in 1..MaxRawExp :
          term = [phase |-> "input", name |-> name, pref |-> pref, l |-> l, m |-> m,
                  n |-> n, np |-> None, c |-> None]
    /\ cg = NewCodeGen
    /\ gen = GenIdle
    /\ kern = KernIdle

NextTerm == ApplyBuildXyzPow

SpecTerm == InitTerm /\ [][NextTerm]_vars

Next ==
    \E L \in Ls, o \in CartOrders, g \in Grads : compute_collocation(L, o, g)

Spec == Init /\ [][Next]_vars

NextRace ==
    \/ \E t \in Callers, L \in Ls, o \in CartOrders, g \in Grads : Enter(t, L, o, g)
    \/ \E t \in Callers : CheckCache(t)
    \/ \E t \in Callers : Generate(t)
    \/ \E t \in Callers : Exec(t)
    \/ \E t \in Callers : Fetch(t)

SpecRace == Init /\ [][NextRace]_vars

InnerBlocks == {2, 64}
CGrads == 0..2

InitGen ==
    /\ CacheInit
    /\ term = TermIdle
    /\ cg = NewCodeGen
    /\ \/ \E L \in 0..MaxGenL, o \in CartOrders :
             gen = [GenIdle EXCEPT !.backend = "np", !.phase = "start", !.L = L,
                                   !.cart_order = o, !.function_name = Lookup(L, o)]
       \/ \E L \in 0..MaxGenL, o \in CartOrders, g \in CGrads, b \in InnerBlocks :
             gen = [GenIdle EXCEPT !.backend = "c", !.phase = "start", !.L = L,
                                   !.cart_order = o, !.grad = g, !.inner_block = b]
    /\ kern = KernIdle

NextGen ==
    \/ numpy_generator_begin
    \/ numpy_generator_am_open
    \/ numpy_am_build
    \/ numpy_generator_am_close
    \/ numpy_generator_end
    \/ shell_c_generator_begin
    \/ c_am_build
    \/ shell_c_generator_end

SpecGen == InitGen /\ [][NextGen]_vars

InitKernel ==
    /\ CacheInit
    /\ term = TermIdle
    /\ cg = NewCodeGen
    /\ gen = GenIdle
    /\ \E L \in 0..MaxKernL, b \in 1..MaxTile, npoints \in 0..MaxPoints, nprim \in 1..MaxPrim,
          spherical \in BOOLEAN :
          kern = KernStart(L, b, npoints, nprim, spherical)

NextKernel ==
    \/ k_sizing
    \/ k_allocate
    \/ k_tile_begin
    \/ k_copy_in
    \/ k_compute
    \/ k_copy_back
    \/ k_free

SpecKernel == InitKernel /\ [][NextKernel]_vars

\* ------------------------------------------------------------------ claims

\* C1: a compute_collocation call with grad > 2 raises before any work: the
\* step that completes such a call reports the error, returns no bundle,
\* runs no generator, builds no kernel, allocates no array and leaves the
\* dict of built kernels exactly as it was.
C1_RaisesBeforeWork ==
    [][(hist'.ncalls = hist.ncalls + 1 /\ lastCall'.grad > 2) =>
          /\ lastCall'.outcome = "ValueError"
          /\ lastCall'.bundle = {}
          /\ built_npcoll_functions' = built_npcoll_functions
          /\ hist'.generated = hist.generated
          /\ hist'.built = hist.built
          /\ hist'.allocated = hist.allocated]_vars

\* A failed call for a key that is not built yet, with other kernels cached.
C1_Witness ==
    /\ lastCall.outcome = "ValueError"
    /\ lastCall.grad > 2
    /\ lastCall.key \notin DOMAIN built_npcoll_functions
    /\ built_npcoll_functions # <<>>

C2_AtMostOneBuild ==
    /\ \A k \in Keys : hist.built[k] <= 1
    /\ \A k \in Keys : (k \in DOMAIN built_npcoll_functions) <=> (hist.built[k] = 1)
    /\ lastCall.outcome = "returned" =>
          lastCall.func = built_npcoll_functions[lastCall.key].obj

C2_EntryKept ==
    /\ \A k \in DOMAIN built_npcoll_functions :
          /\ k \in DOMAIN built_npcoll_functions'
          /\ built_npcoll_functions'[k] = built_npcoll_functions[k]
    /\ \A k \in Keys :
          hist'.calls[k] = hist.calls[k] + 1 =>
             /\ k \in DOMAIN built_npcoll_functions'
             /\ lastCall'.func = built_npcoll_functions'[k].obj
             /\ hist'.built[k] =
                   IF k \in DOMAIN built_npcoll_functions THEN hist.built[k] ELSE 1

\* C2: in a single-threaded sequence of calls the kernel of a key is built at
\* most once: the first call with the key builds and inserts it, a later call
\* returns that same kernel without a build, and an entry of the dict is
\* never removed or replaced.
C2_BuiltOnce == [](C2_AtMostOneBuild) /\ [][C2_EntryKept]_vars

\* The same key called at least twice, built once, and the latest call
\* returned the cached kernel.
C2_Witness ==
    \E k \in Keys :
        /\ hist.calls[k] >= 2
        /\ hist.built[k] = 1
        /\ lastCall.outcome = "returned"
        /\ lastCall.key = k
        /\ lastCall.func = built_npcoll_functions[k].obj

\* C6: when callers race on the first use of a key, the kernel of the key is
\* built at most once under every interleaving of their steps.
C6_RaceBuildsOnce == \A k \in Keys : hist.built[k] <= 1

C7_Absent == term.pref <= 0 \/ term.l - 2 < 0 \/ term.m - 2 < 0 \/ term.n - 2 < 0

C7_ExpectedFactors ==
    LET fs == (IF term.pref # 1 THEN <<FormatPref(term.pref)>> ELSE <<>>)
              \o (IF term.l - 2 > 0 THEN <<PowRef("xc_pow", term.l - 2 - 1)>> ELSE <<>>)
              \o (IF term.m - 2 > 0 THEN <<PowRef("yc_pow", term.m - 2 - 1)>> ELSE <<>>)
              \o (IF term.n - 2 > 0 THEN <<PowRef("zc_pow", term.n - 2 - 1)>> ELSE <<>>)
    IN  IF fs = <<>> THEN <<"1">> ELSE fs

\* C7: _build_xyz_pow returns None exactly when pref <= 0 or one of l-2, m-2,
\* n-2 is negative; otherwise "name = f1 * f2 ..." whose factors are the
\* prefactor (when it is not 1) and the entries xc_pow[l-2-1], yc_pow[m-2-1],
\* zc_pow[n-2-1] of the axes with a positive shifted exponent, or the
\* constant 1 when nothing else stands there, so that the term denotes
\* pref * x^(l-2) y^(m-2) z^(n-2); both backends return the same.
C7_BuildXyzPow ==
    term.phase = "built" =>
        /\ term.np = term.c
        /\ (term.np = None) <=> C7_Absent
        /\ ~C7_Absent =>
              /\ Len(term.np) >= 3
              /\ term.np[1] = term.name
              /\ term.np[2] = "="
              /\ Factors(Rhs(term.np)) = C7_ExpectedFactors
              /\ Monomial(Factors(Rhs(term.np))) =
                    [coef |-> term.pref,
                     ex |-> <<term.l - 2, term.m - 2, term.n - 2>>]

\* A present term with a prefactor, two contributing axes and one silent.
C7_Witness ==
    /\ term.phase = "built"
    /\ term.np # None
    /\ term.pref > 1
    /\ term.l - 2 > 0
    /\ term.m - 2 = 0
    /\ term.n - 2 > 1

\* No axis contributes and the prefactor is 1: the term is the constant 1.
C7_WitnessConstant ==
    /\ term.phase = "built"
    /\ term.np = <<term.name, "=", "1">>

\* C5: shell_c_generator asked for a derivative order other than 0 fails
\* before it makes any call on the code emitter: no block is opened and no
\* line is written.
C5_FailsBeforeEmission ==
    (gen.backend = "c" /\ gen.grad # 0) =>
        /\ cg = NewCodeGen
        /\ gen.phase \in {"start", "done"}
        /\ gen.phase = "done" => gen.outcome = "KeyError"

\* The Hessian was asked of shell_c_generator and the call has ended.
C5_Witness ==
    /\ gen.backend = "c"
    /\ gen.grad = 2
    /\ gen.phase = "done"
    /\ gen.outcome = "KeyError"

\* ---- the product rule, for C8
Axes == 1..3
AxisName == <<"X", "Y", "Z">>
SNames == {"S0", "SX", "SY", "SZ", "SXX", "SXY", "SXZ", "SYY", "SYZ", "SZZ"}
TermVars == {"A", "AX", "AY", "AZ"}
\* <<a>> is the gradient along a, <<a, b>> with a <= b a second derivative
DerivLabels == {<<a>> : a \in Axes} \cup {<<a, b>> : a \in Axes, b \in Axes}
AxesText(d) == IF Len(d) = 1 THEN AxisName[d[1]] ELSE AxisName[d[1]] \o AxisName[d[2]]

ZeroMonomial == [coef |-> 0, ex |-> <<0, 0, 0>>]
\* d/da of coef * x^ex[1] y^ex[2] z^ex[3]
Derivative(mono, a) ==
    IF mono.coef = 0 \/ mono.ex[a] = 0 THEN ZeroMonomial
    ELSE [coef |-> mono.coef * mono.ex[a], ex |-> [mono.ex EXCEPT ![a] = @ - 1]]

NonZero(cs) == LET keep(c) == c.mono.coef # 0 IN SelectSeq(cs, keep)

\* the expansion of the derivative d of S * A, its vanishing terms dropped
C8_Expected(d, A) ==
    IF Len(d) = 1
    THEN NonZero(<<[S |-> "S" \o AxisName[d[1]], mono |-> A],
                   [S |-> "S0", mono |-> Derivative(A, d[1])]>>)
    ELSE NonZero(<<[S |-> "S" \o AxesText(d), mono |-> A],
                   [S |-> "S" \o AxisName[d[1]], mono |-> Derivative(A, d[2])],
                   [S |-> "S" \o AxisName[d[2]], mono |-> Derivative(A, d[1])],
                   [S |-> "S0", mono |-> Derivative(Derivative(A, d[1]), d[2])]>>)

\* the lines of the latest component that write output['<label>']
C8_OutLines(label) ==
    LET hit(w) == w.line.kind = "out" /\ w.line.label = label
    IN  SelectSeq(gen.lastLines, hit)

\* the term line of the latest component that defines <name>, if any
C8_Defs(name) ==
    LET hit(w) == w.line.kind = "term" /\ w.line.words[1] = name
    IN  SelectSeq(gen.lastLines, hit)

RECURSIVE C8_Expand(_)
C8_Expand(fs) ==
    IF fs = <<>> THEN <<>>
    ELSE LET f == Head(fs)
         IN  (IF f \in SNames THEN <<>>
              ELSE IF f \in TermVars
                   THEN (IF C8_Defs(f) = <<>> THEN <<"?">>
                         ELSE Factors(Rhs(C8_Defs(f)[1].line.words)))
                   ELSE <<f>>)
             \o C8_Expand(Tail(fs))

\* what one written right-hand side contributes: a radial factor times a monomial
C8_Contribution(rhs) ==
    LET fs == Factors(rhs)
        radial == {i \in 1..Len(fs) : fs[i] \in SNames}
        rest == C8_Expand(fs)
        known == \A i \in 1..Len(rest) :
                    IsNumber(rest[i]) \/ IsPowRef(rest[i], "xc_pow")
                    \/ IsPowRef(rest[i], "yc_pow") \/ IsPowRef(rest[i], "zc_pow")
    IN  [S |-> IF Cardinality(radial) = 1 /\ known
               THEN fs[CHOOSE i \in radial : TRUE] ELSE "?",
         mono |-> Monomial(rest)]

C8_Emitted(label) ==
    LET out == C8_OutLines(label)
    IN  [i \in 1..Len(out) |-> C8_Contribution(out[i].line.rhs)]

C8_Count(cs, c) == Cardinality({i \in 1..Len(cs) : cs[i] = c})

C8_SameTerms(cs, ds) ==
    /\ Len(cs) = Len(ds)
    /\ \A i \in 1..Len(ds) : C8_Count(cs, ds[i]) = C8_Count(ds, ds[i])

\* C8: for every component the lines _numpy_am_build writes for each of the
\* three gradient and six Hessian labels are one "=" followed by "+=" lines
\* whose terms are those of the product rule for S * x^px y^py z^pz, each
\* nonvanishing term once and no vanishing one.
C8_ProductRule ==
    (gen.backend = "np" /\ gen.lastComp # <<>>) =>
        \A d \in {e \in DerivLabels : Len(e) = 1 \/ e[1] <= e[2]} :
            LET label == "PHI_" \o AxesText(d)
                out == C8_OutLines(label)
                A == [coef |-> 1,
                      ex |-> <<gen.lastComp[2], gen.lastComp[3], gen.lastComp[4]>>]
            IN  /\ Len(out) >= 1
                /\ \A i \in 1..Len(out) : out[i].line.idx = gen.lastComp[1]
                /\ \A i \in 1..Len(out) : out[i].line.op = (IF i = 1 THEN "=" ELSE "+=")
                /\ C8_SameTerms(C8_Emitted(label), C8_Expected(d, A))

\* The component xy: its second derivative along x and y has all four terms.
C8_Witness ==
    /\ gen.backend = "np"
    /\ gen.lastComp # <<>>
    /\ gen.lastComp[2] = 1
    /\ gen.lastComp[3] = 1
    /\ Len(C8_OutLines("PHI_XY")) = 4

\* The component xx: twice S_x * A_x and the angular second derivative 2 * S0.
C8_WitnessSameAxis ==
    /\ gen.backend = "np"
    /\ gen.lastComp # <<>>
    /\ gen.lastComp[2] = 2
    /\ Len(C8_OutLines("PHI_XX")) = 4

\* C3: the tiles the outer loop visits cover every point index of
\* [0, npoints) exactly once, whatever the point count and the tile size.
C3_TilesCoverPoints ==
    kern.phase = "done" =>
        \A p \in 0..(kern.npoints - 1) :
            Cardinality({j \in 1..Len(kern.tiles) :
                            /\ kern.tiles[j].start <= p
                            /\ p < kern.tiles[j].start + kern.tiles[j].remain}) = 1

\* C4: the copy back sends distinct (row, point) pairs to distinct slots of
\* the output buffer, and when the kernel returns every one of the
\* nout * npoints slots has been written exactly once.
C4_ScatterWritesEachSlotOnce ==
    kern.phase \in {"tile", "done"} =>
        \A slot \in DOMAIN kern.ret :
            /\ Len(kern.ret[slot]) <= 1
            /\ kern.phase = "done" => Len(kern.ret[slot]) = 1

\* C9: the valid count of a tile is min(tile size, npoints - start), and the
\* copy loop, the computation loop and the copy-back loop of the tile all run
\* over exactly that many points.
C9_LoopsUseClampedCount ==
    (kern.phase \in {"scatter", "tile"} /\ Len(kern.tiles) > 0) =>
        LET left == kern.npoints - kern.start
            clamped == IF kern.inner_block < left THEN kern.inner_block ELSE left
        IN  /\ kern.remain = clamped
            /\ kern.copied = 0..(clamped - 1)
            /\ kern.computed = 0..(clamped - 1)
            /\ kern.phase = "tile" => kern.scattered = 0..(clamped - 1)

\* C10: in every tile, once the computation loop has run, the radial
\* accumulator of each valid point i is the sum over the primitives of the
\* terms of point start + i alone: nothing left from before the loop and
\* nothing from a point of an earlier tile.
C10_RadialSumPerTile ==
    kern.phase = "scatter" =>
        \A i \in 0..(kern.remain - 1) :
            /\ ~kern.S0[i].junk
            /\ kern.S0[i].terms = k_radial_terms(kern.start + i, kern.nprim)

\* C11: in every tile, once the computation loop has run, entry l of the
\* power table of each of the three axes holds, for every valid point of the
\* tile, the (l + 1)-th power of that point's recentred coordinate on the
\* axis: entry 0 is the coordinate and entry l is entry l - 1 times it.
C11_PowerTablesIncremental ==
    kern.phase = "scatter" =>
        \A a \in DOMAIN kern.pow : \A l \in DOMAIN kern.pow[a] :
            \A i \in 0..(kern.remain - 1) :
                kern.pow[a][l][i] =
                    [junk |-> FALSE, power |-> l + 1, point |-> kern.start + i]

\* C12: when the kernel returns, every temporary the tile body has read or
\* written was acquired by exactly one "new" standing before the outer loop
\* and released by exactly one "delete" standing after it, and no "new" or
\* "delete" stands inside the loop.
C12_BuffersAcquiredOnceOutsideLoop ==
    kern.phase = "done" =>
        /\ \A name \in kern.touched :
              /\ Cardinality({j \in DOMAIN kern.heap :
                      kern.heap[j] = [op |-> "new", name |-> name, where |-> "before"]}) = 1
              /\ Cardinality({j \in DOMAIN kern.heap :
                      kern.heap[j] = [op |-> "delete", name |-> name, where |-> "after"]}) = 1
              /\ Cardinality({j \in DOMAIN kern.heap : kern.heap[j].name = name}) = 2
        /\ \A j \in DOMAIN kern.heap : kern.heap[j].where # "inside"

====
